---- MODULE Spec2Model ----
(***************************************************************************)
(* A model of proto-srv-generator (src/generator.ts): the driver `run`,    *)
(* the extractor `parseProto`, the import resolver `generateImport`, the   *)
(* emitters, and the endpoint callback that the generated wiring installs. *)
(*                                                                         *)
(* Strings are sequences of one-character strings, so that toLowerCase,    *)
(* concatenation and the default (UTF-16 code unit) sort are computed.     *)
(* Fixed file-name suffixes ("_handlers.ts", ...) are single lower-case    *)
(* tokens.  The schema text is a sequence of lines; every regular          *)
(* expression of parseProto is evaluated on the lines by what it matches.  *)
(*                                                                         *)
(* The repository also holds an earlier driver that writes its wiring and  *)
(* client files per service (src/unnamed/part_000); the model follows      *)
(* generator.ts, the program the README runs.                              *)
(***************************************************************************)
EXTENDS Naturals, Sequences, FiniteSets, TLC

VARIABLES
  pc,          \* position of the driver `run` (generator.ts:12-63)
  protoPath,   \* flag --proto ("" is <<>>)
  clobber,     \* flag --force, the module-level `clobber`
  protoText,   \* contents of the schema file, a sequence of lines
  caseFold,    \* the file system folds case in names (environment)
  dirExists,   \* outDir exists
  fs,          \* files of outDir: file name |-> contents
  parse,       \* the ProtoParse returned by parseProto
  si,          \* index of the service the for-loop of run is at
  err,         \* the error the run ended with, "none" if none
  writes,      \* the saves of this run, in order: path and data
  dirAtStart,  \* dirExists when this run started
  fsAtStart,   \* fs when this run started
  runs,        \* runs started so far
  edits,       \* user edits made so far
  impRpcs,     \* import resolver: the rpc list the caller holds
  impGiven,    \* import resolver: the list handed to the first call
  impArg,      \* import resolver: the list handed to the last call
  impFirst,    \* import resolver: the statement the first call rendered
  impText,     \* import resolver: the statement the last call rendered
  impCalls,    \* import resolver: calls made
  epRpc,       \* endpoint: the service and rpc the callback was generated for
  epReq,       \* endpoint: the request being delivered
  epPc,        \* endpoint: position of the callback
  epReplies,   \* endpoint: replies sent for the request
  epStopped    \* endpoint: srv.stop was called

driverVars == <<pc, protoPath, clobber, protoText, caseFold, dirExists, fs,
                parse, si, err, writes, dirAtStart, fsAtStart, runs, edits>>
impVars == <<impRpcs, impGiven, impArg, impFirst, impText, impCalls>>
epVars == <<epRpc, epReq, epPc, epReplies, epStopped>>
vars == <<driverVars, impVars, epVars>>

----------------------------------------------------------------------------
(* Bounds *)

MaxLines == 6      \* lines of a schema text given to the extractor alone
MaxServices == 2   \* service blocks of a schema text given to the driver
MaxRpcs == 2       \* rpc lines of one service block given to the driver
MaxRuns == 2       \* runs of the generator over the same output directory
MaxEdits == 1      \* user edits of handler files
MaxImportRpcs == 3 \* rpcs of a list given to the import resolver

----------------------------------------------------------------------------
(* Strings *)

\* String.prototype.toLowerCase on one character
LowerChar(c) ==
  CASE c = "A" -> "a"
    [] c = "C" -> "c"
    [] c = "E" -> "e"
    [] c = "R" -> "r"
    [] c = "Z" -> "z"
    [] OTHER -> c

toLowerCase(s) == [i \in 1..Len(s) |-> LowerChar(s[i])]

\* UTF-16 code unit of a character, which the default Array.prototype.sort
\* compares strings by
CodeUnit(c) ==
  CASE c = "A" -> 65  [] c = "C" -> 67  [] c = "E" -> 69  [] c = "R" -> 82
    [] c = "Z" -> 90  [] c = "a" -> 97  [] c = "c" -> 99  [] c = "d" -> 100
    [] c = "e" -> 101 [] c = "g" -> 103 [] c = "h" -> 104 [] c = "l" -> 108
    [] c = "o" -> 111 [] c = "p" -> 112 [] c = "q" -> 113 [] c = "r" -> 114
    [] c = "s" -> 115 [] c = "v" -> 118 [] c = "z" -> 122
    [] OTHER -> 0

RECURSIVE StrLess(_, _)
\* a < b as the default sort orders strings
StrLess(a, b) ==
  IF b = <<>> THEN FALSE
  ELSE IF a = <<>> THEN TRUE
  ELSE IF CodeUnit(Head(a)) # CodeUnit(Head(b))
       THEN CodeUnit(Head(a)) < CodeUnit(Head(b))
  ELSE StrLess(Tail(a), Tail(b))

Calc == <<"C", "a", "l", "c">>
calc == <<"c", "a", "l", "c">>
Echo == <<"E", "c", "h", "o">>
Add == <<"A", "d", "d">>
Avg == <<"A", "v", "g">>
AddReq == <<"A", "d", "d", "R", "e", "q">>
AvgReq == <<"A", "v", "g", "R", "e", "q">>
Res == <<"R", "e", "s">>
Zed == <<"Z", "e", "d">>
addreq == <<"a", "d", "d", "r", "e", "q">>
pkg == <<"p", "k", "g">>

----------------------------------------------------------------------------
(* Schema text: lines *)

Line(t, name, inType, outType) ==
  [t |-> t, name |-> name, inType |-> inType, outType |-> outType]

\* "package <name>;"
PackageLine(n) == Line("package", n, <<>>, <<>>)
\* "service <name> {"
ServiceLine(n) == Line("service", n, <<>>, <<>>)
\* "  rpc <name>(<inType>) returns (<outType>) {}"
RpcLine(n, i, o) == Line("rpc", n, i, o)
\* "  rpc <name>(<inType>) returns (stream <outType>) {}": not RPC-shaped
StreamRpcLine(n, i, o) == Line("rpcstream", n, i, o)
\* "}"
CloseLine == Line("close", <<>>, <<>>, <<>>)
\* any other line ("syntax = ...;", "message M {", a field, a comment)
OtherLine == Line("other", <<>>, <<>>, <<>>)

\* the last character of the line is "}"
EndsWithBrace(l) == l.t \in {"rpc", "rpcstream", "close"}
\* the first character of the line is "}"
StartsWithBrace(l) == l.t = "close"

----------------------------------------------------------------------------
(* Schema Extractor: parseProto (generator.ts:348-387) *)

Min(S) == CHOOSE x \in S : \A y \in S : x <= y

\* packageRE.exec(proto): the name captured by the first "package <name>",
\* <<>> (the initial "") when the text has none
PackageMatch(text) ==
  LET at == {i \in 1..Len(text) : text[i].t = "package"}
  IN IF at = {} THEN <<>> ELSE text[Min(at)].name

\* servicesRE.exec(proto) with lastIndex at the start of line `from`:
\* the leftmost "service <name>", extended lazily to the first "}\n}" after
\* it.  <<i, j>>: the match runs from line i to the "}" that starts line j+1;
\* <<>> is null
ServicesMatch(text, from) ==
  LET starts == {i \in from..Len(text) : text[i].t = "service"}
  IN IF starts = {} THEN <<>>
     ELSE LET i == Min(starts)
              ends == {j \in i..(Len(text) - 1) :
                         EndsWithBrace(text[j]) /\ StartsWithBrace(text[j + 1])}
          IN IF ends = {} THEN <<>> ELSE <<i, Min(ends)>>

IsRpcShaped(l) == l.t = "rpc"

\* m[0].match(rpcRE): the RPC-shaped lines of the match, <<>> is null
RpcMatches(text, m) == SelectSeq(SubSeq(text, m[1], m[2]), IsRpcShaped)

\* line.match(rpcLineRE): name, inType and outType of one rpc line
RpcOfLine(l) == [name |-> l.name, inType |-> l.inType, outType |-> l.outType]

Threw(e) == [threw |-> e, packageName |-> <<>>, services |-> <<>>]

\* r.packageName = r.services?.[0].name, evaluated before the push: the
\* TypeError of reading .name of undefined when r.services is empty
DefaultPackageName(r) ==
  IF r.services = <<>> THEN Threw("TypeError")
  ELSE [r EXCEPT !.packageName = r.services[1].name]

RECURSIVE ParseServices(_, _, _)
\* the while loop of parseProto, lastIndex at the start of line `from`
ParseServices(text, from, r) ==
  LET m == ServicesMatch(text, from)
  IN IF m = <<>> THEN r
     ELSE LET name == text[m[1]].name
              lines == RpcMatches(text, m)
              rpcs == [k \in 1..Len(lines) |-> RpcOfLine(lines[k])]
              r1 == IF r.packageName = <<>> THEN DefaultPackageName(r) ELSE r
          IN IF lines = <<>> THEN Threw("Error")
             ELSE IF r1.threw # "none" THEN r1
             ELSE ParseServices(text, m[2] + 2,
                    [r1 EXCEPT !.services =
                       Append(@, [name |-> name, rpcs |-> rpcs])])

parseProto(text) ==
  ParseServices(text, 1,
    [threw |-> "none", packageName |-> PackageMatch(text), services |-> <<>>])

----------------------------------------------------------------------------
(* Naming & Import Resolver (generator.ts:131-160) *)

\* types.indexOf(e)
indexOf(types, e) == Min({i \in 1..Len(types) : types[i] = e})

RECURSIVE FilterFirst(_, _)
\* types.filter((e, idx) => types.indexOf(e) === idx), from index idx on
FilterFirst(types, idx) ==
  IF idx > Len(types) THEN <<>>
  ELSE IF indexOf(types, types[idx]) = idx
       THEN <<types[idx]>> \o FilterFirst(types, idx + 1)
  ELSE FilterFirst(types, idx + 1)

RECURSIVE Insert(_, _)
Insert(e, sorted) ==
  IF sorted = <<>> THEN <<e>>
  ELSE IF StrLess(e, Head(sorted)) THEN <<e>> \o sorted
  ELSE <<Head(sorted)>> \o Insert(e, Tail(sorted))

\* a resolver that joins the types in the order met
sort_Unsorted(a) == a

RECURSIVE sort(_)
\* Array.prototype.sort() with the default comparison
sort(a) == IF a = <<>> THEN <<>> ELSE Insert(Head(a), sort(Tail(a)))

\* `import { ${types.sort().join(", ")} } from "./${protoLibName}.js";`
generateImport(types, protoLibName) ==
  [names |-> sort(FilterFirst(types, 1)),
   from |-> <<"./">> \o protoLibName \o <<".js">>]

RECURSIVE PushTypes(_)
\* rpcs.forEach((r) => a.push(r.outType, r.inType))
PushTypes(rpcs) ==
  IF rpcs = <<>> THEN <<>>
  ELSE <<Head(rpcs).outType, Head(rpcs).inType>> \o PushTypes(Tail(rpcs))

generateServiceImports(srv, protoLibName) ==
  generateImport(PushTypes(srv.rpcs), protoLibName)

RECURSIVE AllRpcs(_)
\* the rpcs of all services, in the order the nested forEach visits them
AllRpcs(services) ==
  IF services = <<>> THEN <<>>
  ELSE Head(services).rpcs \o AllRpcs(Tail(services))

generateAllProtoImports(p, protoLibName) ==
  generateImport(PushTypes(AllRpcs(p.services)), protoLibName)

----------------------------------------------------------------------------
(* Artifact Emitters (generator.ts:162-346): the generated text, by its
   parts *)

\* export function ${h.name}Handler(r: ${h.inType}): Promise<${h.outType}>
generateHandler(h) ==
  [fn |-> h.name \o <<"Handler">>, inType |-> h.inType, outType |-> h.outType]

\* import { ${parse.name} } from "./${fn.toLowerCase()}_handlers.js";
generateHandlerImport(fn, srv) ==
  [st |-> "import", ns |-> srv.name,
   from |-> <<"./">> \o toLowerCase(fn) \o <<"_handlers.js">>]

\* nc.services.add({ name: "${srv.packageName}", version: "0.0.1" })
createService(p) == [st |-> "service", name |-> p.packageName]

\* const ${srv.name.toLowerCase()} = srv.addGroup("${srv.name}");
addGroup(srv) ==
  [st |-> "addGroup", var |-> toLowerCase(srv.name), group |-> srv.name]

\* ${srv.name.toLowerCase()}.addEndpoint("${h.name}", (err, m) => {
\*   const input = ${h.inType}.decode(m?.data);
\*   ${srv.name}.${h.name}Handler(input).then(... ${h.outType}.encode(o) ...)
addEndpoint(srv, h) ==
  [st |-> "addEndpoint", var |-> toLowerCase(srv.name), name |-> h.name,
   decode |-> h.inType, ns |-> srv.name, fn |-> h.name \o <<"Handler">>,
   encode |-> h.outType]

\* the text generateStubs saves
StubsText(service, genLibPath) ==
  [kind |-> "handlers",
   import |-> generateServiceImports(service, genLibPath),
   namespace |-> service.name,
   handlers |-> [k \in 1..Len(service.rpcs) |-> generateHandler(service.rpcs[k])]]

RECURSIVE Endpoints(_)
\* the second forEach of generateMain: per service its group, then one
\* endpoint per rpc
Endpoints(services) ==
  IF services = <<>> THEN <<>>
  ELSE LET srv == Head(services)
       IN <<addGroup(srv)>>
          \o [k \in 1..Len(srv.rpcs) |-> addEndpoint(srv, srv.rpcs[k])]
          \o Endpoints(Tail(services))

\* the text generateMain saves
MainText(p, genLibPath) ==
  [kind |-> "service",
   import |-> generateAllProtoImports(p, genLibPath),
   handlerImports |-> [k \in 1..Len(p.services) |->
                         generateHandlerImport(p.services[k].name, p.services[k])],
   service |-> createService(p),
   body |-> Endpoints(p.services)]

\* a client that addresses the lower-cased service name
ClientMethod_LowerSubject(srv, rpc) ==
  [name |-> rpc.name, inType |-> rpc.inType, outType |-> rpc.outType,
   subject |-> toLowerCase(srv.name) \o <<".">> \o rpc.name]

\* async ${rpc.name}(data: ${rpc.inType}): Promise<${rpc.outType}> {
\*   this.nc.request("${srv.name}.${rpc.name}", ...)
ClientMethod(srv, rpc) ==
  [name |-> rpc.name, inType |-> rpc.inType, outType |-> rpc.outType,
   subject |-> srv.name \o <<".">> \o rpc.name]

\* export class ${srv.name}Client { ... }
ClientClass(srv) ==
  [class |-> srv.name \o <<"Client">>,
   methods |-> [k \in 1..Len(srv.rpcs) |-> ClientMethod(srv, srv.rpcs[k])]]

\* the text generateClient saves
ClientText(p, protoLibName) ==
  [kind |-> "clients",
   import |-> generateAllProtoImports(p, protoLibName),
   classes |-> [k \in 1..Len(p.services) |-> ClientClass(p.services[k])]]

\* the package.json generateNodePackage saves: its build script names the
\* schema file's basename
NodePackageText(protoBase) == [kind |-> "package.json", build |-> protoBase]

\* the tsconfig.json generateTscConfig saves
TscConfigText == [kind |-> "tsconfig.json"]

----------------------------------------------------------------------------
(* File system of the output directory (generator.ts:106-129) *)

EmptyFs == [k \in {} |-> <<>>]

\* the name a path resolves to: itself, or folded on a case-insensitive
\* file system
Key(path) == IF caseFold THEN toLowerCase(path) ELSE path

\* exists(join(outDir, path)): Deno.stat finds it
exists(path) == dirExists /\ Key(path) \in DOMAIN fs

\* fs after save(join(outDir, path), data)
save(files, path, data) ==
  [k \in DOMAIN files \cup {Key(path)} |->
     IF k = Key(path) THEN data ELSE files[k]]

\* fs after copy(join(outDir, pathA), join(outDir, pathB))
copy(files, pathA, pathB) == save(files, pathB, files[Key(pathA)])

\* path.basename and path.extname on a path of tokens: directory tokens end
\* in "/", an extension token starts with "."
DirTokens == {"./", "../"}
ExtTokens == {".proto"}
IsNotDir(tok) == tok \notin DirTokens
basename(path) == SelectSeq(path, IsNotDir)
extname(name) ==
  IF name # <<>> /\ name[Len(name)] \in ExtTokens
  THEN <<name[Len(name)]>> ELSE <<>>

\* the schema file the --proto flag names
ProtoFile == <<"../", "service", ".proto">>

\* a second schema file, whose one rpc is a streaming one: the line is not
\* RPC-shaped for rpcRE, so extraction of this file throws
StreamFile == <<"../", "stream", ".proto">>
StreamText ==
  <<PackageLine(pkg), ServiceLine(Calc), StreamRpcLine(Add, AddReq, Res),
    CloseLine>>

\* Deno.readTextFile(path)
readTextFile(path) == IF path = StreamFile THEN StreamText ELSE protoText

\* what copy reads from protoPath
ProtoContent == [kind |-> "proto", lines |-> readTextFile(protoPath)]

----------------------------------------------------------------------------
(* Pipeline Driver: run (generator.ts:12-63) *)

NoParse == [threw |-> "none", packageName |-> <<>>, services |-> <<>>]

protoName == basename(protoPath)
\* protoName.substring(0, protoName.length - ext.length)
genLib == SubSeq(protoName, 1, Len(protoName) - Len(extname(protoName)))

\* join(outDir, `${s.name}_handlers.ts`), the path run tests for existence
handlersPath(s) == s.name \o <<"_handlers.ts">>
\* join(outDir, `${s.name.toLowerCase()}_handlers.bak`)
bakPath(s) == toLowerCase(s.name) \o <<"_handlers.bak">>
\* join(fn, `${service.name.toLowerCase()}_handlers.ts`), where generateStubs
\* saves
stubsPath(s) == toLowerCase(s.name) \o <<"_handlers.ts">>
mainPath(p) == toLowerCase(p.packageName) \o <<"_service.ts">>
clientPath(p) == toLowerCase(p.packageName) \o <<"_clients.ts">>

Idle == pc \in {"idle", "done", "failed"}

Fail(e) == pc' = "failed" /\ err' = e

\* lines 14-21: the flags are read; an empty --proto throws
Start(p, f) ==
  /\ Idle
  /\ runs < MaxRuns
  /\ runs' = runs + 1
  /\ protoPath' = p
  /\ clobber' = f
  /\ parse' = NoParse
  /\ si' = 0
  /\ writes' = <<>>
  /\ dirAtStart' = dirExists
  /\ fsAtStart' = fs
  /\ IF p = <<>> THEN Fail("--proto is required")
     ELSE pc' = "parse" /\ err' = "none"
  /\ UNCHANGED <<protoText, caseFold, dirExists, fs, edits, impVars, epVars>>

\* a driver that makes the output directory before it extracts the model
Parse_AfterMkdir ==
  /\ pc = "parse"
  /\ dirExists' = TRUE
  /\ LET r == parseProto(readTextFile(protoPath))
     IN IF r.threw # "none"
        THEN Fail(r.threw) /\ UNCHANGED parse
        ELSE parse' = r /\ pc' = "checkOut" /\ UNCHANGED err
  /\ UNCHANGED <<protoPath, clobber, protoText, caseFold, fs, si, writes,
                 dirAtStart, fsAtStart, runs, edits, impVars, epVars>>

\* line 27: await parseProto(protoPath)
Parse ==
  /\ pc = "parse"
  /\ LET r == parseProto(readTextFile(protoPath))
     IN IF r.threw # "none"
        THEN Fail(r.threw) /\ UNCHANGED parse
        ELSE parse' = r /\ pc' = "checkOut" /\ UNCHANGED err
  /\ UNCHANGED <<protoPath, clobber, protoText, caseFold, dirExists, fs, si,
                 writes, dirAtStart, fsAtStart, runs, edits, impVars, epVars>>

\* a driver that takes an existing outDir as it is, force or not
CheckOutDir_NoReject ==
  /\ pc = "checkOut"
  /\ dirExists' = TRUE
  /\ pc' = "copy"
  /\ UNCHANGED <<protoPath, clobber, protoText, caseFold, fs, parse, si, err,
                 writes, dirAtStart, fsAtStart, runs, edits, impVars, epVars>>

\* lines 28-38: outDir exists and no --force throws; a missing outDir is made
CheckOutDir ==
  /\ pc = "checkOut"
  /\ IF dirExists
     THEN /\ IF ~clobber THEN Fail("exists --force to overwrite")
             ELSE pc' = "copy" /\ UNCHANGED err
          /\ UNCHANGED dirExists
     ELSE dirExists' = TRUE /\ pc' = "copy" /\ UNCHANGED err
  /\ UNCHANGED <<protoPath, clobber, protoText, caseFold, fs, parse, si,
                 writes, dirAtStart, fsAtStart, runs, edits, impVars, epVars>>

\* the run's record of a save
Wrote(path, data) == writes' = Append(writes, [path |-> path, data |-> data])

\* line 40: copy(protoPath, join(outDir, basename(protoPath)))
CopyProto ==
  /\ pc = "copy"
  /\ fs' = save(fs, basename(protoPath), ProtoContent)
  /\ Wrote(basename(protoPath), ProtoContent)
  /\ si' = 1
  /\ pc' = IF parse.services = <<>> THEN "main" ELSE "backup"
  /\ UNCHANGED <<protoPath, clobber, protoText, caseFold, dirExists, parse,
                 err, dirAtStart, fsAtStart, runs, edits, impVars, epVars>>

\* lines 44-51: the handlers file of service si is copied to its .bak when
\* handlersPath exists and --force is set
Backup ==
  /\ pc = "backup"
  /\ LET s == parse.services[si]
     IN IF exists(handlersPath(s)) /\ clobber
        THEN /\ fs' = copy(fs, handlersPath(s), bakPath(s))
             /\ Wrote(bakPath(s), fs[Key(handlersPath(s))])
        ELSE UNCHANGED <<fs, writes>>
  /\ pc' = "stubs"
  /\ UNCHANGED <<protoPath, clobber, protoText, caseFold, dirExists, parse,
                 si, err, dirAtStart, fsAtStart, runs, edits, impVars, epVars>>

\* line 52: generateStubs(outDir, s, genLib), then the next service
GenerateStubs ==
  /\ pc = "stubs"
  /\ LET s == parse.services[si]
     IN /\ fs' = save(fs, stubsPath(s), StubsText(s, genLib))
        /\ Wrote(stubsPath(s), StubsText(s, genLib))
  /\ si' = si + 1
  /\ pc' = IF si < Len(parse.services) THEN "backup" ELSE "main"
  /\ UNCHANGED <<protoPath, clobber, protoText, caseFold, dirExists, parse,
                 err, dirAtStart, fsAtStart, runs, edits, impVars, epVars>>

\* line 54: generateMain(outDir, parse, genLib)
GenerateMain ==
  /\ pc = "main"
  /\ fs' = save(fs, mainPath(parse), MainText(parse, genLib))
  /\ Wrote(mainPath(parse), MainText(parse, genLib))
  /\ pc' = "client"
  /\ UNCHANGED <<protoPath, clobber, protoText, caseFold, dirExists, parse,
                 si, err, dirAtStart, fsAtStart, runs, edits, impVars, epVars>>

\* line 55: generateClient(outDir, parse, genLib)
GenerateClient ==
  /\ pc = "client"
  /\ fs' = save(fs, clientPath(parse), ClientText(parse, genLib))
  /\ Wrote(clientPath(parse), ClientText(parse, genLib))
  /\ pc' = "package"
  /\ UNCHANGED <<protoPath, clobber, protoText, caseFold, dirExists, parse,
                 si, err, dirAtStart, fsAtStart, runs, edits, impVars, epVars>>

\* line 58: generateNodePackage(join(outDir, "package.json"), protoPath)
GenerateNodePackage ==
  /\ pc = "package"
  /\ fs' = save(fs, <<"package.json">>, NodePackageText(basename(protoPath)))
  /\ Wrote(<<"package.json">>, NodePackageText(basename(protoPath)))
  /\ pc' = "tsconfig"
  /\ UNCHANGED <<protoPath, clobber, protoText, caseFold, dirExists, parse,
                 si, err, dirAtStart, fsAtStart, runs, edits, impVars, epVars>>

\* lines 59-62: generateTscConfig(join(outDir, "tsconfig.json")); exit 0
GenerateTscConfig ==
  /\ pc = "tsconfig"
  /\ fs' = save(fs, <<"tsconfig.json">>, TscConfigText)
  /\ Wrote(<<"tsconfig.json">>, TscConfigText)
  /\ pc' = "done"
  /\ UNCHANGED <<protoPath, clobber, protoText, caseFold, dirExists, parse,
                 si, err, dirAtStart, fsAtStart, runs, edits, impVars, epVars>>

\* between runs the user edits a handlers file ("Edit the Handlers")
IsHandlersName(f) == f # <<>> /\ f[Len(f)] = "_handlers.ts"

UserEdit(f) ==
  /\ Idle
  /\ edits < MaxEdits
  /\ f \in DOMAIN fs
  /\ IsHandlersName(f)
  /\ edits' = edits + 1
  /\ fs' = [fs EXCEPT ![f] = [kind |-> "edited", rev |-> edits + 1]]
  /\ UNCHANGED <<pc, protoPath, clobber, protoText, caseFold, dirExists,
                 parse, si, err, writes, dirAtStart, fsAtStart, runs,
                 impVars, epVars>>

----------------------------------------------------------------------------
(* Inputs *)

\* the k-th rpc line of a service block given to the driver
DriverRpcLine(k) ==
  CASE k = 1 -> RpcLine(Add, AddReq, Res)
    [] k = 2 -> RpcLine(Avg, AvgReq, Res)
    [] k = 3 -> RpcLine(Echo, addreq, Zed)
    [] OTHER -> RpcLine(calc, Zed, addreq)

DriverSvcNames == {Calc, calc, Echo}

\* service <n> { k rpc lines }, with one rpc line or MaxRpcs; blocks without
\* rpc lines are given to the extractor alone (ParseTexts)
ServiceBlock(n, k) ==
  <<ServiceLine(n)>> \o [i \in 1..k |-> DriverRpcLine(i)] \o <<CloseLine>>

ServiceBlocks == {ServiceBlock(n, k) : n \in DriverSvcNames, k \in {1, MaxRpcs}}

RECURSIVE BlockTexts(_)
\* the texts of at most n service blocks
BlockTexts(n) ==
  IF n = 0 THEN {<<>>}
  ELSE LET shorter == BlockTexts(n - 1)
       IN shorter \cup {t \o b : t \in shorter, b \in ServiceBlocks}

\* schema texts given to the driver: an optional package line, then at most
\* MaxServices service blocks
DriverTexts ==
  {h \o t : h \in {<<>>, <<PackageLine(pkg)>>}, t \in BlockTexts(MaxServices)}

ImpIdle ==
  /\ impRpcs = <<>>
  /\ impGiven = <<>>
  /\ impArg = <<>>
  /\ impFirst = <<>>
  /\ impText = <<>>
  /\ impCalls = 0

EpIdle ==
  /\ epRpc = <<>>
  /\ epReq = <<>>
  /\ epPc = "idle"
  /\ epReplies = <<>>
  /\ epStopped = FALSE

Init ==
  /\ pc = "idle"
  /\ protoPath = <<>>
  /\ clobber = FALSE
  /\ protoText \in DriverTexts
  /\ caseFold \in BOOLEAN
  /\ dirExists \in BOOLEAN
  /\ fs = EmptyFs
  /\ parse = NoParse
  /\ si = 0
  /\ err = "none"
  /\ writes = <<>>
  /\ dirAtStart = dirExists
  /\ fsAtStart = EmptyFs
  /\ runs = 0
  /\ edits = 0
  /\ ImpIdle
  /\ EpIdle

Next ==
  \/ \E p \in {<<>>, ProtoFile, StreamFile}, f \in BOOLEAN : Start(p, f)
  \/ Parse
  \/ CheckOutDir
  \/ CopyProto
  \/ Backup
  \/ GenerateStubs
  \/ GenerateMain
  \/ GenerateClient
  \/ GenerateNodePackage
  \/ GenerateTscConfig
  \/ \E f \in DOMAIN fs : UserEdit(f)

Spec == Init /\ [][Next]_vars

----------------------------------------------------------------------------
(* What the claims speak of, read off the schema text and the run's record
   without the extractor *)

HasSuffix(path, tok) == path # <<>> /\ path[Len(path)] = tok

ServiceLinesOf(text) == {i \in 1..Len(text) : text[i].t = "service"}

\* a run is under way or has ended
InRun == runs > 0
Running == pc \notin {"idle", "done", "failed"}
Succeeded == pc = "done" /\ err = "none"

\* the saves of this run to paths ending in tok
SavesTo(tok) ==
  LET Ends(w) == HasSuffix(w.path, tok) IN SelectSeq(writes, Ends)

\* the files of the output tree whose names end in tok
FilesEnding(tok) == {f \in DOMAIN fs : HasSuffix(f, tok)}

\* the service names differ pairwise, also when case is ignored
DistinctNames(services) ==
  \A a, b \in 1..Len(services) :
    a # b => toLowerCase(services[a].name) # toLowerCase(services[b].name)

----------------------------------------------------------------------------
(* C1 *)

\* C1: for every service of the model, a forced run that finds the service's
\* handler stub <name lower-cased>_handlers.ts in the output directory leaves
\* the stub's contents from before the run in the sibling .bak file.
C1_BackupBeforeOverwrite ==
  (Succeeded /\ clobber) =>
    \A k \in 1..Len(parse.services) :
      LET s == parse.services[k]
      IN (dirAtStart /\ Key(stubsPath(s)) \in DOMAIN fsAtStart
            /\ DistinctNames(parse.services)) =>
           /\ Key(bakPath(s)) \in DOMAIN fs
           /\ fs[Key(bakPath(s))] = fsAtStart[Key(stubsPath(s))]

----------------------------------------------------------------------------
(* C2 *)

\* C2: a run that finds the output directory and has no force flag writes
\* nothing: each of its steps leaves every file and the directory as they
\* were, records no save, and the existence check ends it with the error.
C2_RejectWritesNothing ==
  [][((Running \/ runs' # runs) /\ dirAtStart' /\ ~clobber') =>
       /\ fs' = fs
       /\ dirExists' = dirExists
       /\ writes' = <<>>
       /\ pc' \in {"parse", "checkOut", "failed"}
       /\ (pc = "checkOut" =>
             pc' = "failed" /\ err' = "exists --force to overwrite")]_vars

\* a run was rejected over an output directory that holds generated files
C2_Witness ==
  /\ pc = "failed"
  /\ err = "exists --force to overwrite"
  /\ FilesEnding("_handlers.ts") # {}
  /\ fs = fsAtStart

----------------------------------------------------------------------------
(* C4 *)

\* C4: a run over schema text with zero service blocks ends in a parse error
\* with nothing written; extraction returns no model for it.
C4_NoServicesFails ==
  (InRun /\ protoPath # <<>> /\ pc # "parse"
     /\ ServiceLinesOf(protoText) = {}) =>
    /\ err \in {"Error", "TypeError"}
    /\ writes = <<>>

----------------------------------------------------------------------------
(* C10 *)

\* C10: a successful run over a schema of N >= 2 services leaves N handler
\* files, N wiring files and N client files.
C10_OneSetPerService ==
  (Succeeded /\ Len(parse.services) >= 2 /\ DistinctNames(parse.services)
     /\ fsAtStart = EmptyFs) =>
    /\ Cardinality(FilesEnding("_handlers.ts")) = Len(parse.services)
    /\ Cardinality(FilesEnding("_service.ts")) = Len(parse.services)
    /\ Cardinality(FilesEnding("_clients.ts")) = Len(parse.services)

----------------------------------------------------------------------------
(* C11 *)

\* the paths of the run's saves, in the order they were made
WritePaths == [k \in 1..Len(writes) |-> writes[k].path]

PackageJson == <<"package.json">>
TsConfigJson == <<"tsconfig.json">>

\* the positions of the run's saves by what they save
IsConfigWrite(k) == WritePaths[k] \in {PackageJson, TsConfigJson}
IsCopyWrite(k) == WritePaths[k] = basename(protoPath)
IsBackupWrite(k) == HasSuffix(WritePaths[k], "_handlers.bak")
IsStubWrite(k) == HasSuffix(WritePaths[k], "_handlers.ts")
IsServiceWrite(k) == ~IsConfigWrite(k) /\ ~IsCopyWrite(k)

\* the position of the i-th save of a handler stub
StubWriteAt(i) ==
  CHOOSE k \in 1..Len(writes) :
    /\ IsStubWrite(k)
    /\ Cardinality({j \in 1..k : IsStubWrite(j)}) = i

\* a backup is directly followed by the save of the stub of its service
BackupThenStub ==
  \A k \in 1..Len(writes) :
    IsBackupWrite(k) =>
      \E i \in 1..Len(parse.services) :
        /\ WritePaths[k] = bakPath(parse.services[i])
        /\ k + 1 = StubWriteAt(i)

\* the handler stubs are saved once per service, in model order
StubsInModelOrder ==
  /\ Len(SavesTo("_handlers.ts")) = Len(parse.services)
  /\ \A i \in 1..Len(parse.services) :
       WritePaths[StubWriteAt(i)] = stubsPath(parse.services[i])

\* C11: in a successful run the saves come in this order: service by service
\* in model order, the backup (when decided) and then the service's handler
\* stub, wiring and client, all before the next service's; after every
\* service the package manifest and the compiler configuration, once each;
\* and after those, last, the copy of the schema file.  (Runs over a model
\* without services are C4's.)
C11_WriteOrder ==
  (Succeeded /\ parse.services # <<>>) =>
    LET n == Len(writes)
        m == Len(parse.services)
    IN /\ StubsInModelOrder
       /\ BackupThenStub
       /\ \A i \in 1..(m - 1) :
            \E a, b \in (StubWriteAt(i) + 1)..(StubWriteAt(i + 1) - 1) :
              /\ HasSuffix(WritePaths[a], "_service.ts")
              /\ HasSuffix(WritePaths[b], "_clients.ts")
       /\ Cardinality({k \in 1..n : WritePaths[k] = PackageJson}) = 1
       /\ Cardinality({k \in 1..n : WritePaths[k] = TsConfigJson}) = 1
       /\ \A k, j \in 1..n : (IsServiceWrite(k) /\ IsConfigWrite(j)) => k < j
       /\ \A k, j \in 1..n : (IsConfigWrite(j) /\ IsCopyWrite(k)) => j < k
       /\ n > 0 /\ IsCopyWrite(n)

\* the order run has: the copy of the schema file first, then per service
\* the backup (when decided) and the handler stub, then the wiring and the
\* client of the whole model, then the manifest and the configuration
C11_OrderAsCoded ==
  Succeeded =>
    LET NotBackup(w) == ~HasSuffix(w.path, "_handlers.bak")
        kept == SelectSeq(writes, NotBackup)
    IN /\ BackupThenStub
       /\ [k \in 1..Len(kept) |-> kept[k].path] =
            <<basename(protoPath)>>
              \o [i \in 1..Len(parse.services) |-> stubsPath(parse.services[i])]
              \o <<mainPath(parse), clientPath(parse), PackageJson,
                   TsConfigJson>>

----------------------------------------------------------------------------
(* C12 *)

\* the errors of an empty --proto flag and of a failed extraction
UsageError == "--proto is required"
ExtractionErrors == {"Error", "TypeError"}

\* C12: the step that ends a run in error for an empty schema-path flag or
\* a failed extraction finds the output tree as the run found it: the
\* directory not made, every file with the content it had, and no save,
\* copy or backup on the run's record, with force or without.
C12_FailureLeavesTreeUnchanged ==
  [][((Running \/ runs' # runs) /\ pc' = "failed"
        /\ err' \in ExtractionErrors \cup {UsageError}) =>
       /\ fs' = fsAtStart'
       /\ fs' = fs
       /\ dirExists' = dirAtStart'
       /\ dirExists' = dirExists
       /\ writes' = <<>>]_vars

\* a forced run failed in extraction over an output directory that holds the
\* handler stub of the service the schema names
C12_Witness ==
  /\ pc = "failed"
  /\ err \in ExtractionErrors
  /\ clobber
  /\ protoPath = StreamFile
  /\ dirAtStart
  /\ Key(toLowerCase(Calc) \o <<"_handlers.ts">>) \in DOMAIN fsAtStart
  /\ fs = fsAtStart
  /\ writes = <<>>

\* a run without the schema-path flag ended in the usage error and left a
\* missing output directory missing
C12_UsageWitness ==
  /\ pc = "failed"
  /\ err = UsageError
  /\ protoPath = <<>>
  /\ ~dirAtStart
  /\ ~dirExists

----------------------------------------------------------------------------
(* C13 *)

\* the service names differ pairwise, as written
PairwiseDifferent(services) ==
  \A a, b \in 1..Len(services) : a # b => services[a].name # services[b].name

\* a file the user has edited since it was saved
UserEdited(f) == fs[f].kind = "edited"

\* every service's handler stub is in the output tree with the stubs of that
\* service, unless the user has edited it since the run
OwnStubsPresent ==
  \A k \in 1..Len(parse.services) :
    LET s == parse.services[k]
        f == Key(stubsPath(s))
    IN /\ f \in DOMAIN fs
       /\ UserEdited(f) \/ fs[f] = StubsText(s, genLib)

\* the handler stubs of two services go to two files
StubPathsDiffer ==
  \A a, b \in 1..Len(parse.services) :
    a # b => Key(stubsPath(parse.services[a])) # Key(stubsPath(parse.services[b]))

\* C13: after a successful run over a model whose service names differ
\* pairwise, the handler stubs of the run were saved to pairwise different
\* files, and each service's stub file holds that service's own stubs.
C13_StubPathsDistinct ==
  (Succeeded /\ PairwiseDifferent(parse.services)) =>
    /\ StubPathsDiffer
    /\ OwnStubsPresent

\* the same for names that differ pairwise also when case is ignored
C13_DistinctIgnoringCase ==
  (Succeeded /\ DistinctNames(parse.services)) =>
    /\ StubPathsDiffer
    /\ OwnStubsPresent

----------------------------------------------------------------------------
(* The extractor alone: parseProto applied to every text of at most MaxLines
   lines *)

ParseAlphabet ==
  {PackageLine(pkg), ServiceLine(Calc), ServiceLine(Echo),
   RpcLine(Add, AddReq, Res), RpcLine(Avg, AvgReq, Res),
   StreamRpcLine(Avg, AvgReq, Res), CloseLine, OtherLine}

ParseTexts == UNION {[1..n -> ParseAlphabet] : n \in 0..MaxLines}

InitParse ==
  /\ pc = "parse"
  /\ protoPath = ProtoFile
  /\ clobber = FALSE
  /\ protoText \in ParseTexts
  /\ caseFold = FALSE
  /\ dirExists = FALSE
  /\ fs = EmptyFs
  /\ parse = NoParse
  /\ si = 0
  /\ err = "none"
  /\ writes = <<>>
  /\ dirAtStart = FALSE
  /\ fsAtStart = EmptyFs
  /\ runs = 1
  /\ edits = 0
  /\ ImpIdle
  /\ EpIdle

NextParse == Parse

SpecParse == InitParse /\ [][NextParse]_vars

----------------------------------------------------------------------------
(* The service blocks of a text, read off its lines: a block runs from its
   "service <name> {" line to the next "}" line *)

\* the line that ends the block opened at line i: the first "}" line or
\* "service" line after it, Len(text) + 1 when there is none
BlockEnd(text, i) ==
  LET stops == {j \in (i + 1)..Len(text) : text[j].t \in {"close", "service"}}
  IN IF stops = {} THEN Len(text) + 1 ELSE Min(stops)

\* the block opened at line i is closed by a "}" line
Closed(text, i) ==
  BlockEnd(text, i) <= Len(text) /\ text[BlockEnd(text, i)].t = "close"

\* the lines between the header at line i and the end of its block
BlockLines(text, i) == SubSeq(text, i + 1, BlockEnd(text, i) - 1)

\* the rpc declarations of the block opened at line i, in source order
BlockRpcs(text, i) ==
  LET ls == SelectSeq(BlockLines(text, i), IsRpcShaped)
  IN [k \in 1..Len(ls) |->
        [name |-> ls[k].name, inType |-> ls[k].inType, outType |-> ls[k].outType]]

RECURSIVE BlocksFrom(_, _)
\* the services the text declares from line i on, in source order
BlocksFrom(text, i) ==
  IF i > Len(text) THEN <<>>
  ELSE IF text[i].t = "service"
       THEN <<[name |-> text[i].name, rpcs |-> BlockRpcs(text, i)]>>
            \o BlocksFrom(text, i + 1)
  ELSE BlocksFrom(text, i + 1)

DeclaredServices(text) == BlocksFrom(text, 1)

\* every service block is closed and holds RPC-shaped lines only, at least
\* one; outside the blocks there are no rpc lines
WellFormed(text) ==
  /\ ServiceLinesOf(text) # {}
  /\ \A i \in ServiceLinesOf(text) :
       /\ Closed(text, i)
       /\ BlockLines(text, i) # <<>>
       /\ \A k \in 1..Len(BlockLines(text, i)) : BlockLines(text, i)[k].t = "rpc"
  /\ \A j \in 1..Len(text) :
       text[j].t \in {"rpc", "rpcstream"} =>
         \E i \in ServiceLinesOf(text) : i < j /\ j < BlockEnd(text, i)

HasPackage(text) == \E i \in 1..Len(text) : text[i].t = "package"

Parsed == pc # "parse"
ParseFailed == pc = "failed" /\ err \in {"Error", "TypeError"}
ParseReturned == pc = "checkOut"

----------------------------------------------------------------------------
(* C5 *)

\* C5: extraction fails when some service block holds zero RPC-shaped lines,
\* wherever the block stands; a returned model has no service without rpcs,
\* and the rpcs of each service are declared in a block of that name.
C5_EmptyBlockFails ==
  /\ (Parsed /\ \E i \in ServiceLinesOf(protoText) :
                  Closed(protoText, i) /\ BlockRpcs(protoText, i) = <<>>)
       => ParseFailed
  /\ ParseReturned =>
       \A k \in 1..Len(parse.services) :
         /\ parse.services[k].rpcs # <<>>
         /\ \E i \in ServiceLinesOf(protoText) :
              /\ protoText[i].name = parse.services[k].name
              /\ parse.services[k].rpcs = BlockRpcs(protoText, i)

----------------------------------------------------------------------------
(* C6 *)

\* C6: text without a package declaration and with well-formed services is
\* extracted, and packageName is the name of the first service.
C6_DefaultPackageName ==
  (Parsed /\ ~HasPackage(protoText) /\ WellFormed(protoText)) =>
    /\ ParseReturned
    /\ parse.packageName = DeclaredServices(protoText)[1].name

----------------------------------------------------------------------------
(* C7 *)

\* C7: well-formed text of N services, each with at least one rpc, is
\* extracted to exactly those N services in source order, each with the rpcs
\* of its own block in source order, names and types verbatim.
C7_ServicesInSourceOrder ==
  (Parsed /\ WellFormed(protoText)) =>
    /\ ParseReturned
    /\ parse.services = DeclaredServices(protoText)

\* the same, for texts that declare a package
C7_WithPackage ==
  (Parsed /\ WellFormed(protoText) /\ HasPackage(protoText)) =>
    /\ ParseReturned
    /\ parse.services = DeclaredServices(protoText)

----------------------------------------------------------------------------
(* C8 *)

Max(S) == CHOOSE x \in S : \A y \in S : y <= x

\* the subject the endpoint registered by statement e of a wiring body
\* listens on: the name of the group its variable was last bound to, a dot,
\* and the endpoint's name
Subject(body, e) ==
  LET gs == {g \in 1..(e - 1) :
               body[g].st = "addGroup" /\ body[g].var = body[e].var}
  IN body[Max(gs)].group \o <<".">> \o body[e].name

\* the module an import of the file saved at a _handlers.ts path names
ModuleOf(path) == <<"./">> \o SubSeq(path, 1, Len(path) - 1) \o <<"_handlers.js">>

\* the endpoint statements of a wiring body registered for rpc j of service
\* k: the j-th after the k-th addGroup
EndpointOf(body, k, j) ==
  LET IsGroup(i) == body[i].st = "addGroup"
      groups == {i \in 1..Len(body) : IsGroup(i)}
      g == CHOOSE i \in groups :
             Cardinality({h \in groups : h <= i}) = k
  IN g + j

\* C8: in the artifacts a successful run saved, for every service S and rpc R
\* of S: the wiring registers R's endpoint on the subject S.R, which is the
\* subject method R of S's client class requests; the wiring calls RHandler
\* of the namespace it imports from S's handlers file, and the handlers text
\* saved for S defines RHandler with the same inType and outType.
C8_NamingAgrees ==
  Succeeded =>
    LET main == SavesTo("_service.ts")[1].data
        client == SavesTo("_clients.ts")[1].data
        stubs == SavesTo("_handlers.ts")
    IN /\ Len(stubs) = Len(parse.services)
       /\ Len(client.classes) = Len(parse.services)
       /\ \A k \in 1..Len(parse.services) :
            \A j \in 1..Len(parse.services[k].rpcs) :
              LET s == parse.services[k]
                  r == s.rpcs[j]
                  e == main.body[EndpointOf(main.body, k, j)]
                  m == client.classes[k].methods[j]
                  h == stubs[k].data.handlers[j]
              IN /\ e.st = "addEndpoint"
                 /\ e.name = r.name
                 /\ Subject(main.body, EndpointOf(main.body, k, j))
                      = s.name \o <<".">> \o r.name
                 /\ m.name = r.name
                 /\ m.subject = Subject(main.body, EndpointOf(main.body, k, j))
                 /\ e.fn = r.name \o <<"Handler">>
                 /\ main.handlerImports[k].ns = e.ns
                 /\ main.handlerImports[k].from = ModuleOf(stubs[k].path)
                 /\ stubs[k].data.namespace = e.ns
                 /\ h.fn = e.fn
                 /\ h.inType = e.decode /\ h.inType = r.inType
                 /\ h.outType = e.encode /\ h.outType = r.outType
                 /\ m.inType = r.inType /\ m.outType = r.outType

\* a run succeeded on two services, one of them with two rpcs
C8_Witness ==
  /\ Succeeded
  /\ Len(parse.services) = 2
  /\ \E k \in 1..2 : Len(parse.services[k].rpcs) = 2
  /\ parse.services[1].name # parse.services[2].name

----------------------------------------------------------------------------
(* The import resolver alone: generateServiceImports applied to rpc lists,
   to their permutations and to lists with an rpc repeated *)

ImportRpcs ==
  {[name |-> Add, inType |-> AddReq, outType |-> Res],
   [name |-> Avg, inType |-> AvgReq, outType |-> Res],
   [name |-> Echo, inType |-> addreq, outType |-> Zed],
   [name |-> calc, inType |-> Res, outType |-> AddReq]}

ImportLists == UNION {[1..n -> ImportRpcs] : n \in 0..MaxImportRpcs}

\* srv.rpcs after generateServiceImports: forEach reads it, filter returns a
\* new array and sort() sorts that one
RpcsAfterImports(srv) == srv.rpcs

DriverIdle ==
  /\ pc = "idle"
  /\ protoPath = <<>>
  /\ clobber = FALSE
  /\ protoText = <<>>
  /\ caseFold = FALSE
  /\ dirExists = FALSE
  /\ fs = EmptyFs
  /\ parse = NoParse
  /\ si = 0
  /\ err = "none"
  /\ writes = <<>>
  /\ dirAtStart = FALSE
  /\ fsAtStart = EmptyFs
  /\ runs = 0
  /\ edits = 0

InitImport ==
  /\ DriverIdle
  /\ EpIdle
  /\ impRpcs \in ImportLists
  /\ impGiven = <<>>
  /\ impArg = <<>>
  /\ impFirst = <<>>
  /\ impText = <<>>
  /\ impCalls = 0

\* the lists of the same rpcs as list: its permutations, and the lists that
\* repeat some of its rpcs, of at most one rpc more
Variants(list) ==
  {v \in UNION {[1..n -> {list[i] : i \in 1..Len(list)}] :
                  n \in Len(list)..(Len(list) + 1)} :
     {v[i] : i \in 1..Len(v)} = {list[i] : i \in 1..Len(list)}}

\* generateServiceImports(srv, genLibPath) with srv.rpcs = list
Call(list) ==
  LET srv == [name |-> Calc, rpcs |-> list]
      text == generateServiceImports(srv, <<"service">>)
  IN /\ impArg' = list
     /\ impText' = text
     /\ impFirst' = IF impCalls = 0 THEN text ELSE impFirst
     /\ impGiven' = IF impCalls = 0 THEN list ELSE impGiven
     /\ impRpcs' = RpcsAfterImports(srv)
     /\ impCalls' = impCalls + 1
     /\ UNCHANGED <<driverVars, epVars>>

\* the first call, on the list the caller holds
Resolve == impCalls = 0 /\ Call(impRpcs)

\* the second call, on the same rpcs in another order or with rpcs repeated
ResolveVariant(v) == impCalls = 1 /\ Call(v)

NextImport ==
  \/ Resolve
  \/ \E v \in Variants(impGiven) : ResolveVariant(v)

SpecImport == InitImport /\ [][NextImport]_vars

----------------------------------------------------------------------------
(* C9 *)

TypesOf(rpcs) ==
  {rpcs[i].inType : i \in 1..Len(rpcs)} \cup {rpcs[i].outType : i \in 1..Len(rpcs)}

\* each name once, in ascending code-unit order
StrictlySorted(names) ==
  \A i \in 1..(Len(names) - 1) : StrLess(names[i], names[i + 1])

\* C9: every call of the resolver leaves the rpc list it was handed as it
\* was and renders an import that lists each inType/outType of the list
\* exactly once in lexicographic order; the import rendered for a permutation
\* of the first list, or for a list that repeats its rpcs, is the one rendered
\* for the first list.
C9_ImportOrderIndependent ==
  impCalls > 0 =>
    /\ impRpcs = impArg
    /\ {impText.names[i] : i \in 1..Len(impText.names)} = TypesOf(impArg)
    /\ StrictlySorted(impText.names)
    /\ impText = impFirst

\* the resolver was called again on a list that reorders the first list and
\* repeats an rpc of it, whose types are several, named more than once and
\* not met in sorted order
C9_Witness ==
  /\ impCalls = 2
  /\ Len(impArg) > Len(impGiven)
  /\ SubSeq(impArg, 1, Len(impGiven)) # impGiven
  /\ Len(impText.names) >= 3
  /\ Len(impText.names) < 2 * Len(impGiven)
  /\ PushTypes(impArg) # sort(PushTypes(impArg))

----------------------------------------------------------------------------
(* The callback the generated wiring registers for one rpc
   (generator.ts:192-206), as it runs on a delivered request *)

\* m.respondError(500, err.message)
ErrorCode == 500

\* the services the endpoint is generated for
EndpointServices == {Calc, calc, Echo}

\* a delivery: err is the subscription error; the payload decodes as the
\* inType or not; the handler's promise resolves or rejects; a resolved
\* value encodes as the outType or not
Requests ==
  [err : BOOLEAN, decodes : BOOLEAN, handler : {"resolve", "reject"},
   encodes : BOOLEAN]

InitEndpoint ==
  /\ DriverIdle
  /\ ImpIdle
  /\ epRpc \in {addEndpoint([name |-> n, rpcs |-> <<h>>], h) :
                  n \in EndpointServices, h \in ImportRpcs}
  /\ epReq = <<>>
  /\ epPc = "idle"
  /\ epReplies = <<>>
  /\ epStopped = FALSE

\* the subscription delivers (err, m) to the callback
Deliver(req) ==
  /\ epPc \in {"idle", "returned", "threw", "settled"}
  /\ ~epStopped
  /\ epReq' = req
  /\ epPc' = "callback"
  /\ epReplies' = <<>>
  /\ UNCHANGED <<epRpc, epStopped, driverVars, impVars>>

\* lines 193-199, up to the call of the handler: a subscription error stops
\* the service and returns; decode throws out of the callback, to its
\* caller in the transport library; otherwise the handler is called and its
\* promise is pending
Callback ==
  /\ epPc = "callback"
  /\ IF epReq.err
     THEN epStopped' = TRUE /\ epPc' = "returned"
     ELSE /\ epPc' = IF epReq.decodes THEN "pending" ELSE "threw"
          /\ UNCHANGED epStopped
  /\ UNCHANGED <<epRpc, epReq, epReplies, driverVars, impVars>>

\* m.respond(${h.outType}.encode(o).finish())
Respond(o) == [reply |-> "respond", type |-> o]

\* m.respondError(500, err.message)
RespondError ==
  [reply |-> "respondError", code |-> ErrorCode, message |-> "err.message"]

\* lines 200-205: the promise settles; then() encodes and responds, catch()
\* responds with the error, also with the error encode threw
Settle ==
  /\ epPc = "pending"
  /\ epReplies' =
       Append(epReplies,
              IF epReq.handler = "resolve" /\ epReq.encodes
              THEN Respond(epRpc.encode) ELSE RespondError)
  /\ epPc' = "settled"
  /\ UNCHANGED <<epRpc, epReq, epStopped, driverVars, impVars>>

NextEndpoint ==
  \/ \E req \in Requests : Deliver(req)
  \/ Callback
  \/ Settle

SpecEndpoint == InitEndpoint /\ [][NextEndpoint]_vars

----------------------------------------------------------------------------
(* C3 *)

\* the callback has run to its end on the request, and so has the promise
\* chain it started
Handled == epPc \in {"returned", "threw", "settled"}

\* C3: once a request delivered without a subscription error is handled, the
\* endpoint has sent one reply: the result encoded as the outType when the
\* handler resolved, and an error reply with a numeric code and a message
\* when the handler rejected and when the payload did not decode.
C3_AlwaysReplies ==
  (Handled /\ ~epReq.err) =>
    /\ Len(epReplies) = 1
    /\ (epReq.decodes /\ epReq.handler = "resolve" /\ epReq.encodes) =>
         epReplies[1] = Respond(epRpc.encode)
    /\ (~epReq.decodes \/ epReq.handler = "reject") =>
         /\ epReplies[1].reply = "respondError"
         /\ epReplies[1].code \in Nat

\* the same, for the requests whose payload decodes
C3_RepliesWhenDecoded ==
  (Handled /\ ~epReq.err /\ epReq.decodes) =>
    /\ Len(epReplies) = 1
    /\ (epReq.handler = "resolve" /\ epReq.encodes) =>
         epReplies[1] = Respond(epRpc.encode)
    /\ epReq.handler = "reject" =>
         /\ epReplies[1].reply = "respondError"
         /\ epReplies[1].code \in Nat

====
